---- MODULE Spec2Model ----
(***************************************************************************)
(* The DynamoDB-backed workflow queue of .github/actions/ci-queue/         *)
(* ci-queue.py: the two CLI commands `enqueue` (enqueue_and_wait) and       *)
(* `dequeue`, run by independent processes against one shared table.        *)
(*                                                                          *)
(* Every store call (put_item, scan, update_item, delete_item) is one       *)
(* atomic step; the processes interleave between store calls.  A store      *)
(* call either takes effect or raises ClientError and changes nothing.      *)
(*                                                                          *)
(* Time is a global wall clock counted in ticks.  The four durations of     *)
(* the script are scaled down to ticks keeping their order                  *)
(*   POLL_INTERVAL < WAITING_TTL < MAX_QUEUE_DUR < RUNNING_TTL              *)
(* (1 min < 10 min < 5 h 30 min < 8 h in the script).                       *)
(***************************************************************************)
EXTENDS Integers, Sequences, FiniteSets, TLC

\* ---------------------------------------------------------------- constants

\* Durations, in ticks (ci-queue.py lines 31-36, scaled).
POLL_INTERVAL == 1
MAX_QUEUE_DUR == 3
RUNNING_TTL == 5
WAITING_TTL == 2

\* The wall clock stops advancing here (bound of the model).
MaxTime == 5

\* The processes.  p1 and p2 are runs of two different workflows; p3 is a
\* second invocation for the workflow run of p1 (a retried script).
Procs == {"p1", "p2", "p3"}
Entrants == {"p1", "p2"}

\* --workflow-run-id of each process (ci-queue.py line 44).
WorkflowRunId(p) == IF p = "p2" THEN "run2" ELSE "run1"

\* --github-repository of each process (line 45): run1 is started with a
\* restart target, run2 without.
GithubRepo(p) == p # "p2"

VARIABLES
  clock,           \* wall clock: datetime.now(timezone.utc) / time.time()
  table,           \* the DynamoDB table: a set of items
  pc,              \* where each process is
  now,             \* enqueue_and_wait's `now` (line 97)
  start_time,      \* line 124
  queue_position,  \* line 173; 0 while the local is still unbound
  all_workflows,   \* line 158/165: the sorted scan result of this iteration
  now_timestamp,   \* line 145
  wake_at,         \* end of the time.sleep of line 196
  reruns,          \* number of `gh api .../rerun` calls made (line 75)
  restarted,       \* return value of restart_workflow, "none" before a call
  promoted_at      \* start_running's `now` (line 229) when it succeeded, else -1

vars == <<clock, table, pc, now, start_time, queue_position, all_workflows,
          now_timestamp, wake_at, reruns, restarted, promoted_at>>

locals == <<now, start_time, queue_position, all_workflows, now_timestamp,
            wake_at, reruns, restarted, promoted_at>>

\* ------------------------------------------------------------- the table

\* The item written by registration (lines 102-106).
Item(id, enq, ttl) == [workflow_run_id |-> id, enqueued_at |-> enq, ttl |-> ttl]

\* The item update_item creates when the key is absent: the key and the
\* attribute of the SET expression only.
BareItem(id, ttl) == [workflow_run_id |-> id, ttl |-> ttl]

HasKey(tbl, id) == \E i \in tbl : i.workflow_run_id = id

ItemOf(tbl, id) == CHOOSE i \in tbl : i.workflow_run_id = id

HasEnqueuedAt(i) == "enqueued_at" \in DOMAIN i

\* PutCondition gone wrong: the insert made without its ConditionExpression.
PutUnconditional(tbl, id) == TRUE

\* put_item with ConditionExpression attribute_not_exists(workflow_run_id)
\* (lines 108-112): the condition of the call.
PutCondition(tbl, id) == ~HasKey(tbl, id)

\* put_item: writes the whole item under its key.
PutItem(tbl, item) ==
  {i \in tbl : i.workflow_run_id # item.workflow_run_id} \cup {item}

\* UpdateItem gone wrong: the item written whole, as put_item would.
UpdateReplaces(tbl, id, ttl) ==
  {i \in tbl : i.workflow_run_id # id} \cup {[workflow_run_id |-> id, ttl |-> ttl]}

\* update_item SET #ttl = :new_ttl (lines 207-217, 232-242): unconditional;
\* creates the item when the key is absent.
UpdateItem(tbl, id, ttl) ==
  IF HasKey(tbl, id)
    THEN {IF i.workflow_run_id = id THEN [i EXCEPT !.ttl = ttl] ELSE i : i \in tbl}
    ELSE tbl \cup {BareItem(id, ttl)}

\* DeleteItem gone wrong: the key comparison inverted.
DeleteOthers(tbl, id) == {i \in tbl : i.workflow_run_id = id}

\* delete_item by key (lines 255-258).
DeleteItem(tbl, id) == {i \in tbl : i.workflow_run_id # id}

\* Live gone wrong: the filter written with >=.
LiveInclusive(i, t) == i.ttl >= t

\* FilterExpression '#ttl > :now_timestamp' (line 149).
Live(i, t) == i.ttl > t

\* ScanItems gone wrong: the scan made without its FilterExpression.
ScanAll(tbl, t) == tbl

\* The items a scan at time t returns (lines 146-158).
ScanItems(tbl, t) == {i \in tbl : Live(i, t)}

\* The orders in which a scan may return a set of items.
Orders(S) ==
  {s \in [1..Cardinality(S) -> S] : \A i, j \in 1..Cardinality(S) : s[i] = s[j] => i = j}

\* ------------------------------------------------------------------ sort

\* The sort key of line 165.
SortKey(i) == i.enqueued_at

\* x put behind every element of the sorted s whose key is not greater.
RECURSIVE InsertSorted(_, _)
InsertSorted(x, s) ==
  IF s = <<>> THEN <<x>>
  ELSE IF SortKey(s[Len(s)]) <= SortKey(x) THEN Append(s, x)
  ELSE Append(InsertSorted(x, SubSeq(s, 1, Len(s) - 1)), s[Len(s)])

\* Sorted gone wrong: the sort of line 165 left out.
Unsorted(s) == s

\* list.sort(key=...) of line 165: ascending and stable.
RECURSIVE Sorted(_)
Sorted(s) ==
  IF s = <<>> THEN <<>>
  ELSE InsertSorted(s[Len(s)], Sorted(SubSeq(s, 1, Len(s) - 1)))

\* Lines 171-174: the 1-based index of the own item, 0 when the loop ends
\* without finding it.
RECURSIVE IndexOf(_, _, _)
IndexOf(s, id, k) ==
  IF k > Len(s) THEN 0
  ELSE IF s[k].workflow_run_id = id THEN k
  ELSE IndexOf(s, id, k + 1)

\* ------------------------------------------------------------------ init

Init ==
  /\ clock = 0
  /\ table = {}
  /\ pc = [p \in Procs |-> "idle"]
  /\ now = [p \in Procs |-> 0]
  /\ start_time = [p \in Procs |-> 0]
  /\ queue_position = [p \in Procs |-> 0]
  /\ all_workflows = [p \in Procs |-> <<>>]
  /\ now_timestamp = [p \in Procs |-> 0]
  /\ wake_at = [p \in Procs |-> 0]
  /\ reruns = [p \in Procs |-> 0]
  /\ restarted = [p \in Procs |-> "none"]
  /\ promoted_at = [p \in Procs |-> -1]


\* ------------------------------------------------------- enqueue_and_wait

\* The decisions of the code, one operator each.

\* WaitingTtl gone wrong: the running lease given to a waiter.
WaitingTtlLong(t) == t + RUNNING_TTL

\* Line 98 / 205: the waiting lease written at time t.
WaitingTtl(t) == t + WAITING_TTL

\* RunningTtl gone wrong: the waiting horizon added on top.
RunningTtlLonger(t) == t + RUNNING_TTL + WAITING_TTL

\* Line 230: the running lease written at time t.
RunningTtl(t) == t + RUNNING_TTL

\* Line 127: the time waited so far, at the top of an iteration.
Elapsed(p) == clock - start_time[p]

\* CeilingReached gone wrong: the comparison written with >.
CeilingPassed(e) == e > MAX_QUEUE_DUR

\* Line 129: the wait ceiling.
CeilingReached(e) == e >= MAX_QUEUE_DUR

\* RestartIssued gone wrong: the gh call made without looking at github_repo.
RestartAlways(repo) == TRUE

\* Lines 131 and 69: restart_workflow makes the gh call.
RestartIssued(repo) == repo

\* AtFront gone wrong: the last element of the list taken for the front.
AtBack(s, id) == s[Len(s)].workflow_run_id = id

\* Line 179: this workflow is at the front of the sorted scan result.
AtFront(s, id) == s[1].workflow_run_id = id

\* AfterFailedPromotion gone wrong: a `continue` in the else branch of line 186.
RetryAtOnce == "loop"

\* Lines 186-187 and 196: where a failed promotion continues.
AfterFailedPromotion == "sleep"

\* AfterClientError gone wrong: a sys.exit(1) in the except of line 193.
FatalClientError == "exit1"

\* Lines 193-196: where a ClientError inside the try block continues.
AfterClientError == "sleep"

\* The model forgets a local variable once the code cannot read it again:
\* the scan result after line 179, and the locals of enqueue_and_wait when it
\* has returned, exited, or its process is gone.
ForgetScan(p) ==
  /\ all_workflows' = [all_workflows EXCEPT ![p] = <<>>]
  /\ now_timestamp' = [now_timestamp EXCEPT ![p] = 0]

ForgetLoop(p) ==
  /\ start_time' = [start_time EXCEPT ![p] = 0]
  /\ queue_position' = [queue_position EXCEPT ![p] = 0]
  /\ wake_at' = [wake_at EXCEPT ![p] = 0]

\* `enqueue` starts: line 97 reads the clock.
Enqueue(p) ==
  /\ pc[p] = "idle"
  /\ now' = [now EXCEPT ![p] = clock]
  /\ pc' = [pc EXCEPT ![p] = "put_item"]
  /\ UNCHANGED <<clock, table, start_time, queue_position, all_workflows,
                 now_timestamp, wake_at, reruns, restarted, promoted_at>>

\* Lines 101-124: the conditional insert, then start_time.  `fail`: put_item
\* raises a ClientError other than ConditionalCheckFailedException.
Register(p, fail) ==
  /\ pc[p] = "put_item"
  /\ IF fail
       THEN \* sys.exit(1) (lines 119-121)
            /\ table' = table
            /\ pc' = [pc EXCEPT ![p] = "exit1"]
            /\ start_time' = start_time
       ELSE \* inserted, or ConditionalCheckFailedException ignored
            \* (lines 116-118); then line 124
            /\ table' = IF PutCondition(table, WorkflowRunId(p))
                          THEN PutItem(table, Item(WorkflowRunId(p), now[p],
                                                   WaitingTtl(now[p])))
                          ELSE table
            /\ pc' = [pc EXCEPT ![p] = "loop"]
            /\ start_time' = [start_time EXCEPT ![p] = clock]
  /\ now' = [now EXCEPT ![p] = 0]   \* not read after line 104
  /\ UNCHANGED <<clock, queue_position, all_workflows, now_timestamp,
                 wake_at, reruns, restarted, promoted_at>>

\* Lines 164-179 on a non-empty scan result given in the order `order`.
Rank(p, order) ==
  IF \E k \in 1..Len(order) : ~HasEnqueuedAt(order[k])
    THEN \* KeyError in the sort key: not a ClientError, the process dies
         /\ pc' = [pc EXCEPT ![p] = "uncaught"]
         /\ all_workflows' = [all_workflows EXCEPT ![p] = order]
         /\ ForgetLoop(p)
    ELSE LET s == Sorted(order)
             idx == IndexOf(s, WorkflowRunId(p), 1)
             pos == IF idx # 0 THEN idx ELSE queue_position[p]
         IN /\ all_workflows' = [all_workflows EXCEPT ![p] = s]
            /\ IF pos = 0
                 THEN \* line 177 reads the unbound local: UnboundLocalError
                      /\ pc' = [pc EXCEPT ![p] = "uncaught"]
                      /\ ForgetLoop(p)
                 ELSE /\ pc' = [pc EXCEPT ![p] =
                           IF AtFront(s, WorkflowRunId(p)) THEN "start_running"
                           ELSE "refresh_ttl"]
                      /\ queue_position' = [queue_position EXCEPT ![p] = pos]
                      /\ wake_at' = [wake_at EXCEPT ![p] = 0]
                      /\ UNCHANGED start_time

\* Lines 129-139: the wait ceiling, with restart_workflow (lines 64-88).
Ceiling(p) ==
  /\ pc' = [pc EXCEPT ![p] = "exit1"]
  /\ IF RestartIssued(GithubRepo(p))
       THEN \* the gh call of line 75, which succeeds or fails
            /\ reruns' = [reruns EXCEPT ![p] = @ + 1]
            /\ \E ok \in {"True", "False"} :
                 restarted' = [restarted EXCEPT ![p] = ok]
       ELSE UNCHANGED <<reruns, restarted>>
  /\ ForgetLoop(p)
  /\ UNCHANGED <<all_workflows, now_timestamp>>

\* Lines 143-179: the scan and the ranking.  `fail`: the scan raises
\* ClientError.
Scan(p, fail) ==
  /\ UNCHANGED <<reruns, restarted>>
  /\ IF fail
       THEN \* lines 193-196
            /\ pc' = [pc EXCEPT ![p] = AfterClientError]
            /\ wake_at' = [wake_at EXCEPT ![p] = clock + POLL_INTERVAL]
            /\ UNCHANGED <<start_time, queue_position, all_workflows,
                           now_timestamp>>
       ELSE /\ now_timestamp' = [now_timestamp EXCEPT ![p] = clock]
            /\ IF ScanItems(table, clock) = {}
                 THEN \* no live item: sys.exit(1) (lines 160-162)
                      /\ all_workflows' = [all_workflows EXCEPT ![p] = <<>>]
                      /\ pc' = [pc EXCEPT ![p] = "exit1"]
                      /\ ForgetLoop(p)
                 ELSE \E order \in Orders(ScanItems(table, clock)) :
                        Rank(p, order)

\* Lines 126-179: one poll iteration up to the decision of line 179, begun
\* when the sleep of line 196 (if any) has ended.
Poll(p, fail) ==
  /\ \/ pc[p] = "loop"
     \/ pc[p] = "sleep" /\ clock >= wake_at[p]
  /\ IF CeilingReached(Elapsed(p)) THEN Ceiling(p) ELSE Scan(p, fail)
  /\ UNCHANGED <<clock, table, now, promoted_at>>

\* Lines 183-187 with start_running (lines 223-246).  `fail`: update_item
\* raises ClientError and start_running returns False.
StartRunning(p, fail) ==
  /\ pc[p] = "start_running"
  /\ IF fail
       THEN /\ pc' = [pc EXCEPT ![p] = AfterFailedPromotion]
            /\ wake_at' = [wake_at EXCEPT ![p] = clock + POLL_INTERVAL]
            /\ UNCHANGED <<table, promoted_at, start_time, queue_position>>
       ELSE \* enqueue_and_wait returns (line 185)
            /\ table' = UpdateItem(table, WorkflowRunId(p), RunningTtl(clock))
            /\ promoted_at' = [promoted_at EXCEPT ![p] = clock]
            /\ pc' = [pc EXCEPT ![p] = "returned"]
            /\ ForgetLoop(p)
  /\ ForgetScan(p)
  /\ UNCHANGED <<clock, now, reruns, restarted>>

\* Lines 188-196 with refresh_ttl (lines 199-220); then the sleep starts.
\* `fail`: update_item raises ClientError, a warning (lines 219-220).
RefreshTtl(p, fail) ==
  /\ pc[p] = "refresh_ttl"
  /\ table' = IF fail THEN table
              ELSE UpdateItem(table, WorkflowRunId(p), WaitingTtl(clock))
  /\ pc' = [pc EXCEPT ![p] = "sleep"]
  /\ wake_at' = [wake_at EXCEPT ![p] = clock + POLL_INTERVAL]
  /\ ForgetScan(p)
  /\ UNCHANGED <<clock, now, start_time, queue_position, reruns, restarted,
                 promoted_at>>

\* ---------------------------------------------------------------- dequeue

\* The `dequeue` command for the run of p (lines 249-261).  It is run when no
\* `enqueue` of p is in progress: before any, after enqueue_and_wait has
\* returned (the release), after it exited, and again after a release.
DequeueCallable(p) == pc[p] \in {"idle", "returned", "done", "exit1", "uncaught"}

\* `fail`: delete_item raises ClientError, a warning (lines 260-261).
Dequeue(p, fail) ==
  /\ DequeueCallable(p)
  /\ table' = IF fail THEN table ELSE DeleteItem(table, WorkflowRunId(p))
  /\ pc' = [pc EXCEPT ![p] = IF @ = "returned" THEN "done" ELSE @]
  /\ UNCHANGED <<clock, locals>>

\* ------------------------------------------------------------ environment

\* The process is killed (runner lost, job cancelled) while enqueue_and_wait
\* runs or while the workflow holds access; no dequeue follows.
Running(p) ==
  pc[p] \in {"put_item", "loop", "start_running", "refresh_ttl", "sleep",
             "returned"}

Crash(p) ==
  /\ Running(p)
  /\ pc' = [pc EXCEPT ![p] = "crashed"]
  /\ now' = [now EXCEPT ![p] = 0]
  /\ ForgetLoop(p)
  /\ ForgetScan(p)
  /\ UNCHANGED <<clock, table, reruns, restarted, promoted_at>>

\* Time passes.
Tick ==
  /\ clock < MaxTime
  /\ clock' = clock + 1
  /\ UNCHANGED <<table, pc, locals>>

\* DynamoDB's time-to-live deletes an expired item, at some time after its
\* expiry.
Reap ==
  /\ \E i \in table :
       /\ i.ttl <= clock
       /\ table' = table \ {i}
  /\ UNCHANGED <<clock, pc, locals>>

\* --------------------------------------------------------- specifications

\* A step of process p, the store calls raising ClientError as `faults` allows.
Step(p, faults) ==
  \/ Enqueue(p)
  \/ \E fail \in faults : Register(p, fail)
  \/ \E fail \in faults : Poll(p, fail)
  \/ \E fail \in faults : StartRunning(p, fail)
  \/ \E fail \in faults : RefreshTtl(p, fail)
  \/ \E fail \in faults : Dequeue(p, fail)

\* Runs of two different workflows.  A process may be arbitrarily slow (time
\* may pass between any two steps) and any store call may fail.
Next ==
  \/ \E p \in Entrants : Step(p, BOOLEAN)
  \/ \E p \in Entrants : Crash(p)
  \/ Tick
  \/ Reap

Spec == Init /\ [][Next]_vars

\* The same processes when nothing goes wrong but crashes: no store call
\* fails, a store call and the statements around it take no time, and a sleep
\* ends when its interval is over.  Time passes only while every process is
\* idle, sleeping, holding access or gone.  A holder crashes only while
\* another entrant is waiting in its poll loop: the crash this specification
\* is about is the one that leaves a waiter behind.
Prompt(p) ==
  /\ pc[p] \notin {"put_item", "loop", "start_running", "refresh_ttl"}
  /\ pc[p] = "sleep" => clock < wake_at[p]

TickPrompt ==
  /\ \A p \in Entrants : Prompt(p)
  /\ Tick

Waiting(p) == pc[p] \in {"loop", "refresh_ttl", "sleep"}

CrashWaitedFor(p) ==
  /\ pc[p] = "returned" => \E w \in Entrants \ {p} : Waiting(w)
  /\ Crash(p)

NextReliable ==
  \/ \E p \in Entrants : Step(p, {FALSE})
  \/ \E p \in Entrants : CrashWaitedFor(p)
  \/ TickPrompt
  \/ Reap

SpecReliable == Init /\ [][NextReliable]_vars

\* SpecReliable with every process scheduled and time advancing: a process
\* that can make its next store call makes it, and a tick that can happen
\* happens.
FairReliable ==
  /\ WF_vars(TickPrompt)
  /\ \A p \in Entrants :
       /\ WF_vars(Register(p, FALSE))
       /\ WF_vars(Poll(p, FALSE))
       /\ WF_vars(StartRunning(p, FALSE))
       /\ WF_vars(RefreshTtl(p, FALSE))

SpecFair == Init /\ [][NextReliable]_vars /\ FairReliable

\* The same scheduling with store calls that may raise ClientError and
\* processes that may be killed at any time.
NextFaulty ==
  \/ \E p \in Entrants : Step(p, BOOLEAN)
  \/ \E p \in Entrants : Crash(p)
  \/ TickPrompt
  \/ Reap

FairFaulty ==
  /\ WF_vars(TickPrompt)
  /\ \A p \in Entrants :
       /\ WF_vars(\E fail \in BOOLEAN : Register(p, fail))
       /\ WF_vars(\E fail \in BOOLEAN : Poll(p, fail))
       /\ WF_vars(\E fail \in BOOLEAN : StartRunning(p, fail))
       /\ WF_vars(\E fail \in BOOLEAN : RefreshTtl(p, fail))

SpecFairFaulty == Init /\ [][NextFaulty]_vars /\ FairFaulty

\* A retried script: two invocations (p1, p3) for the same workflow run,
\* queued behind run2, which was promoted at time 0 and is at work.
Retried == {"p1", "p3"}

InitRetried ==
  /\ clock = 0
  /\ table = {Item("run2", 0, RunningTtl(0))}
  /\ pc = [p \in Procs |-> IF p = "p2" THEN "returned" ELSE "idle"]
  /\ now = [p \in Procs |-> 0]
  /\ start_time = [p \in Procs |-> 0]
  /\ queue_position = [p \in Procs |-> 0]
  /\ all_workflows = [p \in Procs |-> <<>>]
  /\ now_timestamp = [p \in Procs |-> 0]
  /\ wake_at = [p \in Procs |-> 0]
  /\ reruns = [p \in Procs |-> 0]
  /\ restarted = [p \in Procs |-> "none"]
  /\ promoted_at = [p \in Procs |-> IF p = "p2" THEN 0 ELSE -1]

NextRetried ==
  \/ \E p \in Retried : Step(p, BOOLEAN)
  \/ \E p \in Retried : Crash(p)
  \/ Tick
  \/ Reap

SpecRetried == InitRetried /\ [][NextRetried]_vars

\* ------------------------------------------------------------------ claims

\* The entrants that hold access: enqueue_and_wait has returned after a
\* successful promotion, and the process has neither called dequeue nor
\* crashed.
Holders == {p \in Entrants : pc[p] = "returned"}

\* No two items of the table carry the same enqueued_at.
DistinctTimestamps ==
  \A i, j \in table :
    (HasEnqueuedAt(i) /\ HasEnqueuedAt(j) /\ i # j) => i.enqueued_at # j.enqueued_at

\* C1: at most one entrant holds access in every reachable state.  Stated for
\* registrations with distinct timestamps, the case the design counts on.
MutualExclusion == DistinctTimestamps => Cardinality(Holders) <= 1

\* p's promotion update succeeds in this step.
Promoted(p) == pc[p] = "start_running" /\ pc'[p] = "returned"

\* C2: whenever a promotion update succeeds, no item that is live in the
\* store at that moment has an earlier enqueued_at than the promoted one.
FirstComeFirstServed ==
  [][\A p \in Entrants :
       (Promoted(p) /\ HasEnqueuedAt(ItemOf(table', WorkflowRunId(p)))) =>
         \A i \in table' :
           (i.ttl > clock /\ HasEnqueuedAt(i)) =>
             i.enqueued_at >= ItemOf(table', WorkflowRunId(p)).enqueued_at]_vars

\* p takes a step of its poll loop's top (lines 126-179) in this step.
Polls(p) ==
  /\ pc[p] \in {"loop", "sleep"}
  /\ pc'[p] # "crashed"
  /\ pc'[p] # pc[p] \/ wake_at'[p] # wake_at[p]

\* h was promoted and crashed while it held access, and left its item with
\* the running lease; w is in its poll loop with an item enqueued later.
WaitsBehindCrashed(w, h) ==
  /\ w # h
  /\ pc[h] = "crashed"
  /\ promoted_at[h] >= 0
  /\ pc[w] \in {"loop", "sleep"}
  /\ HasKey(table, WorkflowRunId(h))
  /\ HasKey(table, WorkflowRunId(w))
  /\ HasEnqueuedAt(ItemOf(table, WorkflowRunId(h)))
  /\ HasEnqueuedAt(ItemOf(table, WorkflowRunId(w)))
  /\ ItemOf(table, WorkflowRunId(h)).ttl = promoted_at[h] + RUNNING_TTL
  /\ ItemOf(table, WorkflowRunId(w)).enqueued_at >
       ItemOf(table, WorkflowRunId(h)).enqueued_at

WaitCeiling ==
  [][\A p \in Entrants :
       /\ (Polls(p) /\ clock - start_time[p] >= MAX_QUEUE_DUR) =>
            /\ pc'[p] = "exit1"
            /\ table' = table
            /\ all_workflows'[p] = all_workflows[p]
            /\ now_timestamp'[p] = now_timestamp[p]
            /\ promoted_at'[p] = promoted_at[p]
       /\ pc[p] = "exit1" => pc'[p] = "exit1"]_vars

\* C4's case: a call ended at the ceiling; the item of its run is still
\* live, so neither a failed registration nor an empty scan ended it.
WaitCeilingWitness ==
  \E p \in Entrants :
    /\ pc[p] = "exit1"
    /\ HasKey(table, WorkflowRunId(p))
    /\ ItemOf(table, WorkflowRunId(p)).ttl > clock
    /\ clock >= MAX_QUEUE_DUR

\* C5: a rerun request is made only by a poll iteration at the wait ceiling,
\* once, and exactly when a restart target was given; whatever the request
\* returns, the call ends with the failure outcome.
RestartOnlyAtCeiling ==
  [][\A p \in Entrants :
       /\ (reruns'[p] # reruns[p] \/ restarted'[p] # restarted[p]) =>
            /\ Polls(p)
            /\ clock - start_time[p] >= MAX_QUEUE_DUR
            /\ GithubRepo(p)
            /\ reruns[p] = 0
       /\ (Polls(p) /\ clock - start_time[p] >= MAX_QUEUE_DUR) =>
            /\ pc'[p] = "exit1"
            /\ reruns'[p] = (IF GithubRepo(p) THEN 1 ELSE 0)
            /\ restarted'[p] \in (IF GithubRepo(p) THEN {"True", "False"}
                                  ELSE {"none"})]_vars

\* C5's case: one call made a rerun request that failed, the other had no
\* restart target and made none; both ended with the failure outcome.
RestartOnlyAtCeilingWitness ==
  /\ pc["p1"] = "exit1" /\ reruns["p1"] = 1 /\ restarted["p1"] = "False"
  /\ pc["p2"] = "exit1" /\ reruns["p2"] = 0
  /\ HasKey(table, "run2") /\ ItemOf(table, "run2").ttl > clock

\* The table holds at most one item per workflow_run_id.
OneItemPerRun ==
  \A i, j \in table : i.workflow_run_id = j.workflow_run_id => i = j

\* C6: at most one item per run id exists, and a registration whose store
\* call raises no other error, made for a run id that already has an item,
\* leaves the table as it is and goes on to the poll loop.
ConditionalInsert ==
  [][/\ OneItemPerRun'
     /\ \A p \in Retried :
          (Register(p, FALSE) /\ \E i \in table : i.workflow_run_id = WorkflowRunId(p)) =>
            /\ table' = table
            /\ pc'[p] = "loop"
            /\ start_time'[p] = clock]_vars

\* C6's case: both invocations for run1 registered at time 0, one of them
\* finding the item of the other; the item carries the timestamp 0.
ConditionalInsertWitness ==
  /\ clock = 0
  /\ pc["p1"] = "loop"
  /\ pc["p3"] = "loop"
  /\ Item("run1", 0, WAITING_TTL) \in table

\* The items of the runs other than id.
Others(tbl, id) == {i \in tbl : i.workflow_run_id # id}

\* C7: a dequeue whose delete succeeds leaves no item for its run id, and
\* leaves the table unchanged when there was none (a second dequeue, a run
\* never registered); a dequeue never ends with an error, and never touches
\* the items of other runs.
DequeueIdempotent ==
  [][\A p \in Entrants :
       /\ Dequeue(p, FALSE) =>
            /\ \A i \in table' : i.workflow_run_id # WorkflowRunId(p)
            /\ (\A i \in table : i.workflow_run_id # WorkflowRunId(p)) => table' = table
       /\ (Dequeue(p, FALSE) \/ Dequeue(p, TRUE)) =>
            /\ Others(table', WorkflowRunId(p)) = Others(table, WorkflowRunId(p))
            /\ pc'[p] = (IF pc[p] = "returned" THEN "done" ELSE pc[p])]_vars

\* C7's case: p released access and its item is gone (a second dequeue would
\* find none), while the item of another run is in the table.
DequeueIdempotentWitness ==
  \E p, q \in Entrants :
    /\ pc[p] = "done"
    /\ \A i \in table : i.workflow_run_id # WorkflowRunId(p)
    /\ \E i \in table : i.workflow_run_id = WorkflowRunId(q)

\* C8: the list a poll iteration ranks holds only items of the table whose
\* ttl is strictly greater than the time of the scan; the front and the rank
\* of the entrant are positions in that list.
ExpiryCorrectness ==
  [][\A p \in Entrants :
       (Polls(p) /\ pc'[p] \in {"start_running", "refresh_ttl"}) =>
         /\ Len(all_workflows'[p]) > 0
         /\ now_timestamp'[p] = clock
         /\ \A k \in 1..Len(all_workflows'[p]) :
              /\ all_workflows'[p][k] \in table
              /\ all_workflows'[p][k].ttl > clock
         /\ (\E k \in 1..Len(all_workflows'[p]) :
               all_workflows'[p][k].workflow_run_id = WorkflowRunId(p)) =>
              /\ queue_position'[p] \in 1..Len(all_workflows'[p])
              /\ all_workflows'[p][queue_position'[p]].workflow_run_id =
                   WorkflowRunId(p)]_vars

\* C8's case: an item that expired exactly at the time of the scan is still
\* in the table and is not in the ranked list.
ExpiryCorrectnessWitness ==
  \E p \in Entrants :
    /\ pc[p] \in {"start_running", "refresh_ttl"}
    /\ \E i \in table :
         /\ i.ttl = now_timestamp[p]
         /\ \A k \in 1..Len(all_workflows[p]) : all_workflows[p][k] # i

\* C9: a dequeue whose delete fails still completes without an error; the
\* item it leaves has a ttl no later than the running lease after the
\* promotion, and no scan made at or after that time returns it.
FailedRelease ==
  [][\A p \in Entrants :
       /\ (pc[p] = "returned" /\ Dequeue(p, TRUE)) =>
            /\ pc'[p] = "done"
            /\ table' = table
       /\ pc'[p] = "done" =>
            \A i \in table' :
              i.workflow_run_id = WorkflowRunId(p) =>
                i.ttl <= promoted_at'[p] + RUNNING_TTL
       /\ \A q \in Entrants :
            (/\ pc[p] = "done"
             /\ clock >= promoted_at[p] + RUNNING_TTL
             /\ Polls(q)) =>
              \A k \in 1..Len(all_workflows'[q]) :
                all_workflows'[q][k].workflow_run_id # WorkflowRunId(p)]_vars

\* C9's case: the item left by a failed release has expired and is still in
\* the table, and a later entrant has found itself at the front.
FailedReleaseWitness ==
  \E p, q \in Entrants :
    /\ pc[p] = "done"
    /\ \E i \in table : i.workflow_run_id = WorkflowRunId(p) /\ i.ttl <= clock
    /\ pc[q] = "start_running"

\* p's promotion update fails in this step.
PromotionFails(p) ==
  pc[p] = "start_running" /\ pc'[p] \notin {"start_running", "returned", "crashed"}

\* C10 as first stated: after a failed promotion the entrant is at the top of
\* its loop again, with no sleep before the next scan.
RetryWithoutSleep ==
  [][\A p \in Entrants : PromotionFails(p) => pc'[p] = "loop"]_vars

\* C10, amended: after a failed promotion the entrant sleeps for the poll
\* interval, the table unchanged, and its next iteration does not begin
\* before the sleep has ended.
SleepAfterFailedPromotion ==
  [][\A p \in Entrants :
       /\ PromotionFails(p) =>
            /\ pc'[p] = "sleep"
            /\ wake_at'[p] = clock + POLL_INTERVAL
            /\ table' = table
       /\ (pc[p] = "sleep" /\ Polls(p)) => clock >= wake_at[p]]_vars

\* C10's case: an entrant that ranked first is asleep: its promotion failed.
SleepAfterFailedPromotionWitness ==
  \E p \in Entrants :
    /\ pc[p] = "sleep"
    /\ queue_position[p] = 1
    /\ wake_at[p] > clock

\* p is in the poll loop of enqueue_and_wait, or holds access.
WaitingOrHolding(p) ==
  pc[p] \in {"loop", "start_running", "refresh_ttl", "sleep", "returned"}

\* C11: the item of an entrant that waits in the poll loop or holds access
\* is in the table with its ttl strictly in the future.
LeaseInvariant ==
  \A p \in Entrants :
    WaitingOrHolding(p) =>
      \E i \in table : i.workflow_run_id = WorkflowRunId(p) /\ i.ttl > clock

\* C12: an item whose ttl has passed is not made live again: no step leaves
\* an item of the same run with the same enqueued_at and a ttl in the future.
ExpiredStaysAbsent ==
  [][\A i \in table :
       (HasEnqueuedAt(i) /\ i.ttl <= clock) =>
         \A j \in table' :
           (/\ j.workflow_run_id = i.workflow_run_id
            /\ HasEnqueuedAt(j)
            /\ j.enqueued_at = i.enqueued_at) => j.ttl <= clock']_vars

\* C13: an entrant goes on to the promotion only from a scan of the table as
\* it is at that time, in which its item is live and no live item has an
\* earlier enqueued_at; enqueue_and_wait returns only by the successful
\* promotion that follows that scan, and then the ttl of the item is the
\* promotion time plus the running lease.
GrantCondition ==
  [][\A p \in Entrants :
       /\ (pc'[p] = "start_running" /\ pc[p] # "start_running") =>
            /\ Polls(p)
            /\ now_timestamp'[p] = clock
            /\ {all_workflows'[p][k] : k \in 1..Len(all_workflows'[p])} =
                 {i \in table : i.ttl > clock}
            /\ \E i \in table :
                 /\ i.workflow_run_id = WorkflowRunId(p)
                 /\ i.ttl > clock
                 /\ \A j \in table :
                      j.ttl > clock => j.enqueued_at >= i.enqueued_at
       /\ (pc'[p] = "returned" /\ pc[p] # "returned") =>
            /\ pc[p] = "start_running"
            /\ all_workflows[p] # <<>>
            /\ all_workflows[p][1].workflow_run_id = WorkflowRunId(p)
            /\ promoted_at'[p] = clock
            /\ \E i \in table' :
                 /\ i.workflow_run_id = WorkflowRunId(p)
                 /\ i.ttl = clock + RUNNING_TTL]_vars

\* C13's case: p has just been granted access, its item carrying the running
\* lease, while the live item of a later entrant is in the table.
GrantConditionWitness ==
  \E p, q \in Entrants :
    /\ pc[p] = "returned"
    /\ promoted_at[p] = clock
    /\ pc[q] = "sleep"
    /\ \E i, j \in table :
         /\ i.workflow_run_id = WorkflowRunId(p)
         /\ i.ttl = clock + RUNNING_TTL
         /\ j.workflow_run_id = WorkflowRunId(q)
         /\ j.ttl > clock
         /\ HasEnqueuedAt(i) /\ HasEnqueuedAt(j)
         /\ j.enqueued_at > i.enqueued_at

\* e1 registered and crashed before any promotion, and its item is still in
\* the table; e2 is in its poll loop with an item enqueued later.
WaitsBehindCrashedWaiter(e2, e1) ==
  /\ e1 # e2
  /\ pc[e1] = "crashed"
  /\ promoted_at[e1] < 0
  /\ Waiting(e2)
  /\ HasKey(table, WorkflowRunId(e1))
  /\ HasKey(table, WorkflowRunId(e2))
  /\ HasEnqueuedAt(ItemOf(table, WorkflowRunId(e1)))
  /\ HasEnqueuedAt(ItemOf(table, WorkflowRunId(e2)))
  /\ ItemOf(table, WorkflowRunId(e2)).enqueued_at >
       ItemOf(table, WorkflowRunId(e1)).enqueued_at

\* C14: an entrant that polls behind the item of a crashed waiter is
\* eventually granted access, unless it crashes itself.  Stated for waiting
\* leases that end within the time the model covers.
CrashedWaiterRecovery ==
  \A e1, e2 \in Entrants :
    (/\ WaitsBehindCrashedWaiter(e2, e1)
     /\ ItemOf(table, WorkflowRunId(e1)).ttl <= MaxTime)
      ~> (pc[e2] \in {"returned", "crashed"})

\* C14's case: e2 was granted access at or after the end of the waiting
\* lease that the crashed waiter e1 left in the table.
CrashedWaiterRecoveryWitness ==
  \E e1, e2 \in Entrants :
    /\ e1 # e2
    /\ pc[e1] = "crashed"
    /\ promoted_at[e1] < 0
    /\ pc[e2] = "returned"
    /\ \E i, j \in table :
         /\ i.workflow_run_id = WorkflowRunId(e1)
         /\ j.workflow_run_id = WorkflowRunId(e2)
         /\ HasEnqueuedAt(i) /\ HasEnqueuedAt(j)
         /\ j.enqueued_at > i.enqueued_at
         /\ promoted_at[e2] >= i.ttl

\* C15: a poll iteration below the wait ceiling whose scan succeeds and
\* finds no live item ends the call with the failure outcome and writes
\* nothing to the table.
EmptyScanFatal ==
  [][\A p \in Entrants :
       (/\ Poll(p, FALSE)
        /\ clock - start_time[p] < MAX_QUEUE_DUR
        /\ \A i \in table : i.ttl <= clock) =>
          /\ pc'[p] = "exit1"
          /\ table' = table
          /\ promoted_at'[p] = promoted_at[p]]_vars

\* C15's case: a call ended on an empty scan made at the present time, the
\* entrant's own expired item still being in the table.
EmptyScanFatalWitness ==
  \E p \in Entrants :
    /\ pc[p] = "exit1"
    /\ clock > 0
    /\ now_timestamp[p] = clock
    /\ \E i \in table : i.workflow_run_id = WorkflowRunId(p) /\ i.ttl <= clock

\* C16: a ClientError raised by the scan, by the renewal or by the promotion
\* update leaves the table unchanged, grants nothing and does not end the
\* call: the entrant sleeps, and the next step of a sleeping entrant is the
\* start of a further iteration.
StoreErrorsNotFatal ==
  [][\A p \in Entrants :
       /\ (\/ Poll(p, TRUE) /\ clock - start_time[p] < MAX_QUEUE_DUR
           \/ RefreshTtl(p, TRUE)
           \/ StartRunning(p, TRUE)) =>
            /\ pc'[p] = "sleep"
            /\ wake_at'[p] = clock + POLL_INTERVAL
            /\ table' = table
            /\ promoted_at'[p] = promoted_at[p]
       /\ (pc[p] = "sleep" /\ pc'[p] \notin {"sleep", "crashed"}) => Polls(p)]_vars

\* C16's case: an entrant sleeps without ever having been ranked: the scan of
\* its first iteration raised ClientError.
StoreErrorsNotFatalWitness ==
  \E p \in Entrants :
    /\ pc[p] = "sleep"
    /\ queue_position[p] = 0
    /\ wake_at[p] > clock
    /\ \E i \in table : i.workflow_run_id = WorkflowRunId(p) /\ i.ttl > clock

\* p makes a store write in this step.
Writes(p) ==
  \E fail \in BOOLEAN :
    \/ Register(p, fail)
    \/ RefreshTtl(p, fail)
    \/ StartRunning(p, fail)
    \/ Dequeue(p, fail)

\* C17: a store write of an entrant leaves the items of the other runs as
\* they are, and no step changes the enqueued_at of an item that stays in
\* the table.
FrameOfWrites ==
  [][/\ \A p \in Entrants :
          Writes(p) =>
            {i \in table' : i.workflow_run_id # WorkflowRunId(p)} =
              {i \in table : i.workflow_run_id # WorkflowRunId(p)}
     /\ \A i \in table : \A j \in table' :
          (j.workflow_run_id = i.workflow_run_id /\ "enqueued_at" \in DOMAIN i) =>
            /\ "enqueued_at" \in DOMAIN j
            /\ j.enqueued_at = i.enqueued_at]_vars

\* C17's case: p's item has been renewed after its registration and keeps
\* its enqueued_at, next to the item of another run.
FrameOfWritesWitness ==
  \E p, q \in Entrants :
    /\ p # q
    /\ pc[p] = "sleep"
    /\ \E i, j \in table :
         /\ i.workflow_run_id = WorkflowRunId(p)
         /\ j.workflow_run_id = WorkflowRunId(q)
         /\ HasEnqueuedAt(i) /\ HasEnqueuedAt(j)
         /\ i.ttl > i.enqueued_at + WAITING_TTL
         /\ i.ttl = wake_at[p] - POLL_INTERVAL + WAITING_TTL

\* The items of a sequence.
Range(s) == {s[k] : k \in 1..Len(s)}

\* C18: two entrants whose scans returned the same set of live items have
\* the same item at the front of their sorted lists.
DeterministicFront ==
  \A p, q \in Entrants :
    (/\ pc[p] \in {"start_running", "refresh_ttl"}
     /\ pc[q] \in {"start_running", "refresh_ttl"}
     /\ Range(all_workflows[p]) = Range(all_workflows[q])) =>
      all_workflows[p][1] = all_workflows[q][1]

\* C19: every item of the table carries the enqueued_at of a registration.
OnlyRegisteredItems ==
  \A i \in table : "enqueued_at" \in DOMAIN i

\* C20: every call of enqueue_and_wait whose process is not killed ends with
\* a grant or with the failure outcome.  Stated for calls whose wait ceiling
\* lies within the time the model covers.
WaitTerminates ==
  \A p \in Entrants :
    (pc[p] = "put_item" /\ clock + MAX_QUEUE_DUR <= MaxTime)
      ~> (pc[p] \in {"returned", "exit1", "crashed"})

\* C20 with the uncaught exceptions counted among the endings: every call of
\* enqueue_and_wait whose process is not killed ends in some way.
WaitEnds ==
  \A p \in Entrants :
    (pc[p] = "put_item" /\ clock + MAX_QUEUE_DUR <= MaxTime)
      ~> (pc[p] \in {"returned", "exit1", "crashed", "uncaught"})

====
